---- MODULE Spec2Model ----
(***************************************************************************)
(* A model of the session state of PayVisualizer (src/app.py): the grade   *)
(* band table, the market benchmark array and the employee record set,     *)
(* with one action per entry point.                                        *)
(*                                                                         *)
(* Conventions.                                                            *)
(*  - Every monetary amount is an integer number of hundredths (cents), so *)
(*    that 4874.99 is 487499 and 8443.5 is 844350.  Grades are integers.   *)
(*  - Text is a sequence of one-character strings.                         *)
(*  - A spreadsheet or DataFrame cell is a record [k, v, s]: k is the kind *)
(*    ("num", "nan", "str", "bool"), v the number, s the text.             *)
(*  - A DataFrame is [isNone, columns, rows]; a row is [index, values],    *)
(*    index being the pandas row label and values one cell per column.     *)
(*  - Python sequences are 0-based: PyAt(s, i) is s[i] of the source.      *)
(***************************************************************************)
EXTENDS Integers, Sequences, FiniteSets, TLC

VARIABLES
    grade_df,            \* self.grade_df: sequence of band rows, in row order
    market_data,         \* self.market_data: benchmark array, grade 12 first
    employee_df,         \* self.employee_df: None or a DataFrame
    sorted_market_data,  \* the aligned benchmarks of the last visualization
    result               \* what the last call returned (or that it raised)

vars == <<grade_df, market_data, employee_df, sorted_market_data, result>>

----------------------------------------------------------------------------
(* Bounds of the model *)

MaxRows == 2          \* data rows of an uploaded sheet
MaxEdits == 2         \* rows of a band edit set
MaxMarketEdits == 2   \* rows of a benchmark edit set

----------------------------------------------------------------------------
(* Generic helpers *)

Cents(n) == n * 100

PyAt(s, i) == s[i + 1]

Range(s) == {s[i] : i \in DOMAIN s}

Min(S) == CHOOSE x \in S : \A y \in S : x <= y

RECURSIVE SeqsUpTo(_, _)
SeqsUpTo(S, n) ==
    IF n = 0 THEN {<<>>}
    ELSE LET shorter == SeqsUpTo(S, n - 1)
         IN  shorter \cup {Append(q, x) : q \in {r \in shorter : Len(r) = n - 1}, x \in S}

----------------------------------------------------------------------------
(* Cells *)

Num(n) == [k |-> "num", v |-> n, s |-> <<>>]
NaN == [k |-> "nan", v |-> 0, s |-> <<>>]
Str(t) == [k |-> "str", v |-> 0, s |-> t]
Bool(b) == [k |-> "bool", v |-> IF b THEN 1 ELSE 0, s |-> <<>>]

\* a number that is not whole, in a column counted in units: its hundredths
Dec(hundredths) == [k |-> "dec", v |-> hundredths, s |-> <<>>]

IsNum(c) == c.k = "num"
IsDec(c) == c.k = "dec"
IsNa(c) == c.k = "nan"
IsStr(c) == c.k = "str"

----------------------------------------------------------------------------
(* __init__ *)

MaxGrade == 12

GradeColumn == <<12, 11, 10, 9, 8, 7, 6, 5, 4, 3, 2, 1>>
MinimumColumn == <<45000, 30000, 22500, 18000, 12000, 9000, 7500, 4875, 3750, 2625, 1650, 855>>
MidpointColumn == <<60000, 40000, 30000, 24000, 16000, 12000, 10000, 6500, 5000, 3500, 2200, 1140>>
MaximumColumn == <<75000, 50000, 37500, 30000, 20000, 15000, 12500, 8125, 6250, 4375, 2750, 1425>>

grade_data ==
    [i \in 1..Len(GradeColumn) |->
        [Grade |-> GradeColumn[i],
         Minimum |-> Cents(MinimumColumn[i]),
         Midpoint |-> Cents(MidpointColumn[i]),
         Maximum |-> Cents(MaximumColumn[i])]]

PredefinedMarketData ==
    <<7620000, 4980000, 3810000, 3093600, 2267800, 1655500,
      1239000, 844350, 635000, 451500, 281600, 148200>>

NoneDF == [isNone |-> TRUE, columns |-> <<>>, rows |-> <<>>]

\* no uploaded file
NoFile == [readable |-> FALSE, columns |-> <<>>, rows |-> <<>>]

\* the last call: op its name, rows the number of rows of its argument, ok
\* and msg the pair it returned, raised whether an exception escaped it;
\* missing and count are what the message of a failed ingest lists, file
\* the sheet an ingest was given
NoResult == [op |-> "init", rows |-> 0, ok |-> TRUE, msg |-> "", raised |-> FALSE,
             missing |-> <<>>, count |-> 0, file |-> NoFile]

Init ==
    /\ grade_df = grade_data
    /\ market_data = PredefinedMarketData
    /\ employee_df = NoneDF
    /\ sorted_market_data = <<>>
    /\ result = NoResult

----------------------------------------------------------------------------
(* DataFrame access *)

ColPos(df, name) ==
    LET hits == {i \in DOMAIN df.columns : df.columns[i] = name}
    IN  IF hits = {} THEN 0 ELSE Min(hits)

HasCol(df, name) == ColPos(df, name) # 0

RowValue(df, row, name) == row.values[ColPos(df, name)]

\* df[name] = column, for a column given as one cell per row; a new name
\* is appended to the columns.
SetColumn(df, name, cells) ==
    IF HasCol(df, name)
    THEN [df EXCEPT !.rows =
            [i \in DOMAIN df.rows |->
                [df.rows[i] EXCEPT !.values[ColPos(df, name)] = cells[i]]]]
    ELSE [df EXCEPT !.columns = Append(df.columns, name),
                    !.rows = [i \in DOMAIN df.rows |->
                                [df.rows[i] EXCEPT !.values = Append(@, cells[i])]]]

\* df.at[index, name] = cell; a missing column is created holding NaN.
SetAt(df, i, name, cell) ==
    LET wide == IF HasCol(df, name) THEN df
                ELSE SetColumn(df, name, [j \in DOMAIN df.rows |-> NaN])
    IN  [wide EXCEPT !.rows[i].values[ColPos(wide, name)] = cell]

Column(df, name) == [i \in DOMAIN df.rows |-> RowValue(df, df.rows[i], name)]

----------------------------------------------------------------------------
(* Text of the column names the code looks up *)

EMP_ID == <<"E", "M", "P", " ", "I", "D">>
EMP_NAME == <<"E", "M", "P", " ", "N", "A", "M", "E">>
GRADE == <<"G", "R", "A", "D", "E">>
TOTAL == <<"T", "O", "T", "A", "L">>
IS_OUTLIER == <<"I", "S", "_", "O", "U", "T", "L", "I", "E", "R">>

----------------------------------------------------------------------------
(* Band lookup and the outlier test *)

\* self.grade_df[self.grade_df['Grade'] == grade]: the positions of the
\* band rows whose Grade equals the cell (only a number can equal one).
BandRows(bands, gradeCell) ==
    IF IsNum(gradeCell)
    THEN {i \in DOMAIN bands : bands[i].Grade = gradeCell.v}
    ELSE {}

HasBand(bands, gradeCell) == BandRows(bands, gradeCell) # {}

\* .values[0] of the selection
FirstBand(bands, gradeCell) == bands[Min(BandRows(bands, gradeCell))]

\* a test whose upper end is open
OutsideHalfOpen(salary, band) ==
    IsNum(salary) /\ (salary.v < band.Minimum \/ salary.v >= band.Maximum)

\* a test whose lower end is open
OutsideAboveMinimum(salary, band) ==
    IsNum(salary) /\ (salary.v <= band.Minimum \/ salary.v > band.Maximum)

\* a test that counts a missing salary as outside every band
OutsideOrMissing(salary, band) ==
    ~IsNum(salary) \/ salary.v < band.Minimum \/ salary.v > band.Maximum

\* salary < grade_min or salary > grade_max, for a numeric or missing salary
\* (every comparison with NaN is false)
OutsideRange(salary, band) ==
    IsNum(salary) /\ (salary.v < band.Minimum \/ salary.v > band.Maximum)

----------------------------------------------------------------------------
(* update_grade_data *)

\* lines 186-190: one edit row overwrites the three values of every band
\* row with its Grade
ApplyEditAtRow(bands, edit) ==
    [i \in DOMAIN bands |->
        IF i = edit.Grade
        THEN [bands[i] EXCEPT !.Minimum = edit.Minimum,
                              !.Midpoint = edit.Midpoint,
                              !.Maximum = edit.Maximum]
        ELSE bands[i]]

ApplyEdit(bands, edit) ==
    [i \in DOMAIN bands |->
        IF bands[i].Grade = edit.Grade
        THEN [bands[i] EXCEPT !.Minimum = edit.Minimum,
                              !.Midpoint = edit.Midpoint,
                              !.Maximum = edit.Maximum]
        ELSE bands[i]]

RECURSIVE ApplyEdits(_, _)
ApplyEdits(bands, edits) ==
    IF edits = <<>> THEN bands
    ELSE ApplyEdits(ApplyEdit(bands, Head(edits)), Tail(edits))

\* lines 195-207, one pass of the loop body for row i: the exception it
\* raises, or the frame with the row's flag overwritten
ReclassifyRow(df, bands, i) ==
    LET row == df.rows[i] IN
    IF ~HasCol(df, GRADE) \/ ~HasCol(df, TOTAL)
    THEN [exc |-> "KeyError", df |-> df]
    ELSE LET grade == RowValue(df, row, GRADE)
             salary == RowValue(df, row, TOTAL)
         IN  IF ~HasBand(bands, grade)
             THEN [exc |-> "IndexError", df |-> df]
             ELSE IF ~(IsNum(salary) \/ IsNa(salary))
             THEN [exc |-> "TypeError", df |-> df]
             ELSE [exc |-> "none",
                   df |-> SetAt(df, i, IS_OUTLIER,
                                Bool(OutsideRange(salary, FirstBand(bands, grade))))]

\* the loop of lines 195-207 from row i on: it stops at the first exception,
\* keeping what the earlier rows wrote
RECURSIVE ReclassifyFrom(_, _, _)
ReclassifyFrom(df, bands, i) ==
    IF i > Len(df.rows) THEN [exc |-> "none", df |-> df]
    ELSE LET step == ReclassifyRow(df, bands, i)
         IN  IF step.exc # "none" THEN step
             ELSE ReclassifyFrom(step.df, bands, i + 1)

Reclassify(df, bands) ==
    IF df.isNone THEN [exc |-> "none", df |-> df]
    ELSE ReclassifyFrom(df, bands, 1)

\* the try/except Exception of an entry point (lines 185/210, 215/241,
\* 42/176): the value returned without an exception, (False, message) with one
Uncaught(exc, returned, failMsg) ==
    IF exc = "none" THEN returned
    ELSE [ok |-> FALSE, msg |-> failMsg, raised |-> TRUE]

Caught(exc, returned, failMsg) ==
    IF exc = "none" THEN returned
    ELSE [ok |-> FALSE, msg |-> failMsg, raised |-> FALSE]

Return(ok, msg) == [ok |-> ok, msg |-> msg, raised |-> FALSE]

CallResult(op, rows, ret) ==
    [op |-> op, rows |-> rows, ok |-> ret.ok, msg |-> ret.msg, raised |-> ret.raised,
     missing |-> <<>>, count |-> 0, file |-> NoFile]

update_grade_data(new_grade_data) ==
    LET bands == ApplyEdits(grade_df, new_grade_data)
        pass == Reclassify(employee_df, bands)
    IN  /\ grade_df' = bands
        /\ employee_df' = pass.df
        /\ result' = CallResult("update_grade_data", Len(new_grade_data),
                          Caught(pass.exc, Return(TRUE, "Grade data updated successfully"),
                                 "Failed to update grade data"))
        /\ UNCHANGED <<market_data, sorted_market_data>>

----------------------------------------------------------------------------
(* update_market_data, set_predefined_market_data *)

Market_50th_Percentile == "Market_50th_Percentile"

\* lines 220-222: the dictionary built from the edit rows, a later row of a
\* grade replacing an earlier one
RECURSIVE GradeToMarket(_, _)
GradeToMarket(rows, dict) ==
    IF rows = <<>> THEN dict
    ELSE LET r == Head(rows)
             rest == [g \in DOMAIN dict \ {r.Grade} |-> dict[g]]
         IN  GradeToMarket(Tail(rows),
                           [g \in DOMAIN dict \cup {r.Grade} |->
                               IF g = r.Grade THEN r.value ELSE rest[g]])

EmptyDict == [g \in {} |-> 0]

RebuiltEntryAscending(dict, old, grade) ==
    IF grade \in DOMAIN dict THEN dict[grade]
    ELSE LET grade_index == grade - 1
         IN  IF 0 <= grade_index /\ grade_index < Len(old)
             THEN PyAt(old, grade_index)
             ELSE 0

\* lines 226-235: the entry appended for a grade
RebuiltEntry(dict, old, grade) ==
    IF grade \in DOMAIN dict THEN dict[grade]
    ELSE LET grade_index == MaxGrade - grade
         IN  IF 0 <= grade_index /\ grade_index < Len(old)
             THEN PyAt(old, grade_index)
             ELSE 0

RebuildAscending(dict, old) ==
    [p \in 1..MaxGrade |-> RebuiltEntry(dict, old, p)]

\* a rebuild that stops above grade 1
RebuildDownToTwo(dict, old) ==
    [p \in 1..(MaxGrade - 1) |-> RebuiltEntry(dict, old, MaxGrade + 1 - p)]

\* for grade in range(12, 0, -1): position p of the new array is grade 13 - p
RebuildMarketData(dict, old) ==
    [p \in 1..MaxGrade |-> RebuiltEntry(dict, old, MaxGrade + 1 - p)]

\* row.Market_50th_Percentile of a named tuple: itertuples names a field
\* after its column only if the column name is a valid identifier
MarketExc(new_market_data) ==
    IF new_market_data.rows # <<>> /\ new_market_data.column # Market_50th_Percentile
    THEN "AttributeError"
    ELSE "none"

update_market_data(new_market_data) ==
    LET exc == MarketExc(new_market_data) IN
    /\ market_data' =
          IF exc = "none"
          THEN RebuildMarketData(GradeToMarket(new_market_data.rows, EmptyDict), market_data)
          ELSE market_data
    /\ result' = CallResult("update_market_data", Len(new_market_data.rows),
                      Caught(exc, Return(TRUE, "Market data updated successfully"),
                             "Failed to update market data"))
    /\ UNCHANGED <<grade_df, employee_df, sorted_market_data>>

\* a reset that restores the band table as well
ResetBenchmarksAndBands ==
    /\ market_data' = PredefinedMarketData
    /\ grade_df' = grade_data
    /\ result' = CallResult("set_predefined_market_data", 0,
                      Return(TRUE, "Market data updated with predefined values"))
    /\ UNCHANGED <<employee_df, sorted_market_data>>

set_predefined_market_data ==
    /\ market_data' = PredefinedMarketData
    /\ result' = CallResult("set_predefined_market_data", 0,
                      Return(TRUE, "Market data updated with predefined values"))
    /\ UNCHANGED <<grade_df, employee_df, sorted_market_data>>

----------------------------------------------------------------------------
(* generate_visualization *)

\* line 269: sort_values('Grade', ascending=True), by insertion
RECURSIVE InsertBand(_, _)
InsertBand(sorted, band) ==
    IF sorted = <<>> THEN <<band>>
    ELSE IF band.Grade < Head(sorted).Grade THEN <<band>> \o sorted
    ELSE <<Head(sorted)>> \o InsertBand(Tail(sorted), band)

RECURSIVE SortByGrade(_)
SortByGrade(bands) ==
    IF bands = <<>> THEN <<>>
    ELSE InsertBand(SortByGrade(SubSeq(bands, 1, Len(bands) - 1)), bands[Len(bands)])

AlignedEntryAscending(market, grade) ==
    LET original_index == grade - 1
    IN  IF 0 <= original_index /\ original_index < Len(market)
        THEN PyAt(market, original_index)
        ELSE 0

\* lines 282-287: the benchmark emitted for a grade
AlignedEntry(market, grade) ==
    LET original_index == MaxGrade - grade
    IN  IF 0 <= original_index /\ original_index < Len(market)
        THEN PyAt(market, original_index)
        ELSE 0

\* lines 278-287
AlignToGrades(market, grades) ==
    [i \in DOMAIN grades |-> AlignedEntry(market, grades[i])]

Grades(bands) == [i \in DOMAIN bands |-> bands[i].Grade]

\* lines 373-515, the employee layer over a loaded frame.  Line 377 indexes
\* the GRADE and IS_OUTLIER columns and inverts the flags: a flag that was
\* never written (NaN in a column that df.at created) cannot be inverted.
\* For a grade of the chart that has records, lines 389-499 index the
\* EMP ID, TOTAL and EMP NAME columns.
VisualizationExc(df, grades) ==
    IF df.isNone \/ grades = <<>> THEN "none"
    ELSE IF ~HasCol(df, GRADE) \/ ~HasCol(df, IS_OUTLIER) THEN "KeyError"
    ELSE IF \E i \in DOMAIN df.rows : IsNa(RowValue(df, df.rows[i], IS_OUTLIER))
    THEN "TypeError"
    ELSE IF /\ \E i \in DOMAIN df.rows : \E j \in DOMAIN grades :
                  RowValue(df, df.rows[i], GRADE) = Num(grades[j])
            /\ (~HasCol(df, EMP_ID) \/ ~HasCol(df, TOTAL) \/ ~HasCol(df, EMP_NAME))
    THEN "KeyError"
    ELSE "none"

generate_visualization ==
    LET sorted == SortByGrade(grade_df)
        exc == VisualizationExc(employee_df, Grades(sorted))
    IN  /\ grade_df' = sorted
        /\ sorted_market_data' =
              IF exc = "none" THEN AlignToGrades(market_data, Grades(sorted)) ELSE <<>>
        /\ result' = CallResult("generate_visualization", 0,
                          [ok |-> exc = "none", msg |-> "", raised |-> exc # "none"])
        /\ UNCHANGED <<market_data, employee_df>>

----------------------------------------------------------------------------
(* Text: str.upper, str.replace, str(), the regular expressions of         *)
(* lines 100-104 and the number parser behind pd.to_numeric                *)

LowerLetters == <<"a", "b", "c", "d", "e", "f", "g", "h", "i", "j", "k", "l", "m",
                  "n", "o", "p", "q", "r", "s", "t", "u", "v", "w", "x", "y", "z">>
UpperLetters == <<"A", "B", "C", "D", "E", "F", "G", "H", "I", "J", "K", "L", "M",
                  "N", "O", "P", "Q", "R", "S", "T", "U", "V", "W", "X", "Y", "Z">>
Digits == <<"0", "1", "2", "3", "4", "5", "6", "7", "8", "9">>

UpperChar(c) ==
    IF \E i \in DOMAIN LowerLetters : LowerLetters[i] = c
    THEN UpperLetters[CHOOSE i \in DOMAIN LowerLetters : LowerLetters[i] = c]
    ELSE c

\* col.upper()
Upper(t) == [i \in DOMAIN t |-> UpperChar(t[i])]

IsDigit(c) == \E i \in DOMAIN Digits : Digits[i] = c
DigitValue(c) == (CHOOSE i \in DOMAIN Digits : Digits[i] = c) - 1
IsSpace(c) == c = " "

\* does the literal lit occur in t at position i
OccursAt(t, lit, i) ==
    /\ i + Len(lit) - 1 <= Len(t)
    /\ \A j \in 1..Len(lit) : t[i + j - 1] = lit[j]

\* t.replace(lit, ''), left to right, for a non-empty literal
RECURSIVE Remove(_, _)
Remove(t, lit) ==
    IF t = <<>> THEN <<>>
    ELSE IF OccursAt(t, lit, 1) THEN Remove(SubSeq(t, Len(lit) + 1, Len(t)), lit)
    ELSE <<Head(t)>> \o Remove(Tail(t), lit)

\* the length of the run of digits (\d+), or of blanks (\s*), from position i
RECURSIVE DigitRun(_, _)
DigitRun(t, i) ==
    IF i > Len(t) \/ ~IsDigit(t[i]) THEN 0
    ELSE 1 + DigitRun(t, i + 1)

RECURSIVE SpaceRun(_, _)
SpaceRun(t, i) ==
    IF i > Len(t) \/ ~IsSpace(t[i]) THEN 0
    ELSE 1 + SpaceRun(t, i + 1)

\* the value of a run of decimal digits
RECURSIVE ParseNat(_)
ParseNat(ds) ==
    IF ds = <<>> THEN 0
    ELSE 10 * ParseNat(SubSeq(ds, 1, Len(ds) - 1)) + DigitValue(ds[Len(ds)])

\* str() of a natural number
RECURSIVE NatText(_)
NatText(n) ==
    IF n < 10 THEN <<Digits[n + 1]>>
    ELSE Append(NatText(n \div 10), Digits[(n % 10) + 1])

\* the patterns of lines 100-104, each a literal prefix followed by \s*(\d+)
patterns == << <<"G", "r", "a", "d", "e">>, <<"G">>, <<>> >>

\* the digits captured by prefix\s*(\d+) matched at position i, <<>> if the
\* pattern does not match there; the bare pattern (\d+) has no \s*
CaptureAt(t, prefix, i) ==
    IF ~OccursAt(t, prefix, i) THEN <<>>
    ELSE LET afterPrefix == i + Len(prefix)
             afterSpace == IF prefix = <<>> THEN afterPrefix
                           ELSE afterPrefix + SpaceRun(t, afterPrefix)
             n == DigitRun(t, afterSpace)
         IN  SubSeq(t, afterSpace, afterSpace + n - 1)

\* str.extract(pattern): the group of the leftmost match, NaN without a match
Extract(t, prefix) ==
    LET starts == {i \in 1..Len(t) : CaptureAt(t, prefix, i) # <<>>}
    IN  IF starts = {} THEN NaN ELSE Str(CaptureAt(t, prefix, Min(starts)))

\* float infinity, as a number of cents above every amount of the model;
\* its negation is minus infinity
InfiniteCents == 2000000000

InfinityTexts == {<<"I", "N", "F">>, <<"I", "N", "F", "I", "N", "I", "T", "Y">>}

\* str() of a number of hundredths that is not negative: its units, with
\* the decimals after a point when there are any, a final 0 dropped
HundredthsText(v) ==
    IF v = InfiniteCents THEN <<"i", "n", "f">>
    ELSE IF v % 100 = 0 THEN NatText(v \div 100)
    ELSE IF v % 10 = 0
    THEN NatText(v \div 100) \o <<".">> \o <<Digits[((v % 100) \div 10) + 1]>>
    ELSE NatText(v \div 100) \o <<".">> \o <<Digits[((v % 100) \div 10) + 1], Digits[(v % 10) + 1]>>

\* astype(str) of a number of cents; a negative one prints with its sign
CentsText(v) == IF v < 0 THEN <<"-">> \o HundredthsText(0 - v) ELSE HundredthsText(v)

\* str() of a whole number
IntText(n) ==
    IF n = InfiniteCents THEN <<"i", "n", "f">>
    ELSE IF n = 0 - InfiniteCents THEN <<"-", "i", "n", "f">>
    ELSE IF n < 0 THEN <<"-">> \o NatText(0 - n)
    ELSE NatText(n)

\* astype(str) of a GRADE cell; a number with decimals prints them
GradeText(c) ==
    IF IsStr(c) THEN c.s
    ELSE IF IsNa(c) THEN <<"n", "a", "n">>
    ELSE IF IsDec(c) THEN CentsText(c.v)
    ELSE IntText(c.v)

TotalText(c) ==
    IF IsStr(c) THEN c.s
    ELSE IF IsNa(c) THEN <<"n", "a", "n">>
    ELSE CentsText(c.v)

\* strip(): pd.to_numeric ignores blanks around a number
Strip(t) ==
    LET lead == SpaceRun(t, 1)
        keep == {i \in DOMAIN t : i > lead /\ \E j \in i..Len(t) : ~IsSpace(t[j])}
    IN  [i \in 1..Cardinality(keep) |-> t[lead + i]]

\* the number parser on a text without sign or surrounding white space, as
\* cents: digits with, optionally, a point and one or two more digits, the
\* digits before the point or those after it possibly absent
ParseUnsigned(t) ==
    LET whole == DigitRun(t, 1)
    IN  IF whole = Len(t)
        THEN (IF whole = 0 THEN NaN ELSE Num(Cents(ParseNat(t))))
        ELSE IF t[whole + 1] # "." THEN NaN
        ELSE LET frac == SubSeq(t, whole + 2, Len(t))
             IN  IF Len(frac) > 2 \/ DigitRun(frac, 1) # Len(frac) THEN NaN
                 ELSE IF whole = 0 /\ Len(frac) = 0 THEN NaN
                 ELSE Num(Cents(ParseNat(SubSeq(t, 1, whole)))
                          + (IF Len(frac) = 0 THEN 0
                             ELSE IF Len(frac) = 1 THEN 10 * ParseNat(frac)
                             ELSE ParseNat(frac)))

\* the number with its sign changed; NaN stays NaN
Negated(n) == IF IsNum(n) THEN Num(0 - n.v) ELSE n

\* the number parser after an optional sign
ParseSigned(t) ==
    IF t # <<>> /\ Head(t) = "-" THEN Negated(ParseUnsigned(Tail(t)))
    ELSE IF t # <<>> /\ Head(t) = "+" THEN ParseUnsigned(Tail(t))
    ELSE ParseUnsigned(t)

\* "inf" and "infinity" in any letter case, with or without a sign, on the
\* text as it stands (white space around them is not accepted)
InfinityOf(text) ==
    IF Upper(text) \in InfinityTexts THEN Num(InfiniteCents)
    ELSE IF text # <<>> /\ Head(text) = "+" /\ Upper(Tail(text)) \in InfinityTexts
    THEN Num(InfiniteCents)
    ELSE IF text # <<>> /\ Head(text) = "-" /\ Upper(Tail(text)) \in InfinityTexts
    THEN Num(0 - InfiniteCents)
    ELSE NaN

\* pd.to_numeric(errors='coerce') of a text, as cents: an optional sign,
\* then digits with, optionally, a point and one or two more digits, with
\* white space around the whole; or an infinity; every other text of the
\* model's inputs is NaN.  (Texts with more decimals or an exponent are
\* outside the model's inputs.)
ParseCents(text) ==
    IF IsNum(InfinityOf(text)) THEN InfinityOf(text) ELSE ParseSigned(Strip(text))

\* pd.to_numeric(errors='coerce') of one TOTAL cell
ToNumericTotal(c) == IF IsStr(c) THEN ParseCents(c.s) ELSE c

\* does the literal occur in t
Occurs(t, lit) == \E i \in DOMAIN t : OccursAt(t, lit, i)

\* line 137: .astype(str).replace({',': '', 'AED': '', ' ': ''}, regex=True);
\* the patterns are removed one after the other, each only from a value in
\* which it occurred before any removal
CleanTotal(c) ==
    LET original == TotalText(c)
        Without(t, lit) == IF Occurs(original, lit) THEN Remove(t, lit) ELSE t
    IN  Str(Without(Without(Without(original, <<",">>), <<"A", "E", "D">>), <<" ">>))

----------------------------------------------------------------------------
(* load_employee_data *)

\* DataFrame.empty
IsEmpty(df) == df.rows = <<>> \/ df.columns = <<>>

required_columns == <<EMP_ID, EMP_NAME, GRADE, TOTAL>>

\* a comparison that folds letter case only
MatchesIgnoringCase(col, req_col) == Upper(col) = Upper(req_col)

\* line 77
Matches(col, req_col) ==
    \/ Upper(col) = Upper(req_col)
    \/ Remove(Upper(col), <<" ">>) = Remove(Upper(req_col), <<" ">>)

\* line 50, the texts pd.read_excel reads as a missing value
NaTexts ==
    { <<>>, <<"#", "N", "/", "A">>, <<"#", "N", "/", "A", " ", "N", "/", "A">>,
      <<"#", "N", "A">>, <<"-", "1", ".", "#", "I", "N", "D">>,
      <<"-", "1", ".", "#", "Q", "N", "A", "N">>, <<"-", "N", "a", "N">>,
      <<"-", "n", "a", "n">>, <<"1", ".", "#", "I", "N", "D">>,
      <<"1", ".", "#", "Q", "N", "A", "N">>, <<"<", "N", "A", ">">>,
      <<"N", "/", "A">>, <<"N", "A">>, <<"N", "U", "L", "L">>, <<"N", "a", "N">>,
      <<"N", "o", "n", "e">>, <<"n", "/", "a">>, <<"n", "a", "n">>,
      <<"n", "u", "l", "l">> }

\* line 50, the reader on one cell: a text that stands for a missing value
\* becomes NaN
SanitizeCell(c) == IF IsStr(c) /\ c.s \in NaTexts THEN NaN ELSE c

\* a number of hundredths as a number of units, its decimals kept; NaN and
\* infinity stay what they are
AsUnits(n) ==
    IF ~IsNum(n) \/ n.v = InfiniteCents \/ n.v = 0 - InfiniteCents THEN n
    ELSE IF n.v % 100 = 0 THEN Num(n.v \div 100)
    ELSE Dec(n.v)

\* line 50, the number the reader makes of a numeric text: cents in a
\* column of amounts; in any other column its units, the decimals kept
NumberOfText(text, amounts) ==
    IF amounts THEN ParseCents(text) ELSE AsUnits(ParseCents(text))

\* line 50, the reader on one column: missing-value texts become NaN, and
\* when every text left reads as a number the column becomes numeric;
\* one text that does not leaves the other texts as they are
ConvertColumn(cells, amounts) ==
    LET sanitized == [i \in DOMAIN cells |-> SanitizeCell(cells[i])]
        texts == {i \in DOMAIN cells : IsStr(sanitized[i])}
    IN  IF \A i \in texts : IsNum(ParseCents(sanitized[i].s))
        THEN [i \in DOMAIN cells |->
                 IF i \in texts THEN NumberOfText(sanitized[i].s, amounts)
                 ELSE sanitized[i]]
        ELSE sanitized

\* column j of the sheet as it is stored in the file
SheetColumn(uploaded_file, j) ==
    [i \in DOMAIN uploaded_file.rows |-> uploaded_file.rows[i][j]]

\* line 50, column j as the reader returns it; the column of amounts is the
\* one line 77 will take for TOTAL
ReadColumn(uploaded_file, j) ==
    ConvertColumn(SheetColumn(uploaded_file, j), Matches(uploaded_file.columns[j], TOTAL))

\* pd.read_excel: the sheet as a frame, rows labelled 0, 1, ..., each column
\* converted as a whole
ReadExcel(uploaded_file) ==
    [isNone |-> FALSE,
     columns |-> uploaded_file.columns,
     rows |-> [i \in DOMAIN uploaded_file.rows |->
                  [index |-> i - 1,
                   values |-> [j \in DOMAIN uploaded_file.columns |->
                                  ReadColumn(uploaded_file, j)[i]]]]]

\* lines 76-80: the first actual column matching a required one, 0 if none
MatchFor(df, req_col) ==
    LET hits == {i \in DOMAIN df.columns : Matches(df.columns[i], req_col)}
    IN  IF hits = {} THEN 0 ELSE Min(hits)

NotFound(df, req_col) == MatchFor(df, req_col) = 0

\* a report that stops at the first required column without a match
FirstMissingColumn(df) ==
    LET Test(req_col) == NotFound(df, req_col)
        all == SelectSeq(required_columns, Test)
    IN  IF all = <<>> THEN <<>> ELSE <<Head(all)>>

\* lines 70-83
missing_columns(df) ==
    LET Test(req_col) == NotFound(df, req_col)
    IN  SelectSeq(required_columns, Test)

\* line 90: rename(columns={column_mapping[k]: k})
Rename(df) ==
    [df EXCEPT !.columns =
        [i \in DOMAIN df.columns |->
            LET reqs == {j \in DOMAIN required_columns :
                            /\ ~NotFound(df, required_columns[j])
                            /\ df.columns[MatchFor(df, required_columns[j])] = df.columns[i]}
            IN  IF reqs = {} THEN df.columns[i]
                ELSE required_columns[CHOOSE j \in reqs : \A k \in reqs : k <= j]]]

\* pd.api.types.is_numeric_dtype: a column of numbers and blanks is int64 or
\* float64, a column with any text is object
IsNumericColumn(cells) ==
    \A i \in DOMAIN cells : IsNum(cells[i]) \/ IsDec(cells[i]) \/ IsNa(cells[i])

\* line 97: astype(int) of one value cuts its decimals off, towards zero
AsInt(c) ==
    IF ~IsDec(c) THEN c
    ELSE IF c.v < 0 THEN Num(0 - ((0 - c.v) \div 100))
    ELSE Num(c.v \div 100)

\* line 97 on a column; whole numbers stay as they are
AsIntColumn(cells) == [i \in DOMAIN cells |-> AsInt(cells[i])]

AllNa(cells) == \A i \in DOMAIN cells : IsNa(cells[i])

\* line 108 for one pattern
ExtractColumn(cells, pattern) ==
    [i \in DOMAIN cells |-> Extract(GradeText(cells[i]), pattern)]

\* line 111: pd.to_numeric of the extracted digits
ToNumericGrade(c) == IF IsStr(c) THEN Num(ParseNat(c.s)) ELSE c

\* lines 107-112: the first pattern that matches some value is applied to the
\* whole column; without one the column is left as it is
FirstWorkingPattern(cells) ==
    LET working == {p \in DOMAIN patterns : ~AllNa(ExtractColumn(cells, patterns[p]))}
    IN  IF working = {} THEN 0 ELSE Min(working)

\* an extraction that gives each value the first pattern matching that value
ExtractEachByFirstMatch(cells) ==
    [i \in DOMAIN cells |->
        LET working == {p \in DOMAIN patterns :
                           ~IsNa(Extract(GradeText(cells[i]), patterns[p]))}
        IN  IF working = {} THEN NaN
            ELSE ToNumericGrade(Extract(GradeText(cells[i]), patterns[Min(working)]))]

ExtractGrades(cells) ==
    LET p == FirstWorkingPattern(cells)
    IN  IF p = 0 THEN cells
        ELSE [i \in DOMAIN cells |-> ToNumericGrade(ExtractColumn(cells, patterns[p])[i])]

\* lines 93-119: the GRADE column after extraction, or the exception of
\* astype(int) on a numeric column holding a blank or an infinity
GradeStage(df) ==
    LET cells == Column(df, GRADE)
    IN  IF IsNumericColumn(cells)
        THEN IF \E i \in DOMAIN cells :
                    \/ IsNa(cells[i])
                    \/ cells[i] = Num(InfiniteCents)
                    \/ cells[i] = Num(0 - InfiniteCents)
             THEN [exc |-> "IntCastingNaNError", df |-> df]
             ELSE IF \E i \in DOMAIN cells : IsDec(cells[i])
             THEN [exc |-> "none", df |-> SetColumn(df, GRADE, AsIntColumn(cells))]
             ELSE [exc |-> "none", df |-> df]
        ELSE [exc |-> "none", df |-> SetColumn(df, GRADE, ExtractGrades(cells))]

\* a filter that drops the rows without a grade only
KeepsRowWithGrade(df, row) == IsNum(RowValue(df, row, GRADE))

\* line 123: rows whose GRADE is present and positive, labels kept
KeepsRow(df, row) ==
    LET g == RowValue(df, row, GRADE) IN IsNum(g) /\ g.v > 0

FilterGrades(df) ==
    LET Test(row) == KeepsRow(df, row)
    IN  [df EXCEPT !.rows = SelectSeq(df.rows, Test)]

\* lines 136-141: the TOTAL column made numeric; only when the first
\* remaining value is text is the column cleaned of separators first
CoerceTotals(cells) ==
    LET cleaned == IF IsStr(cells[1])
                   THEN [i \in DOMAIN cells |-> ToNumericTotal(CleanTotal(cells[i]))]
                   ELSE cells
    IN  [i \in DOMAIN cells |-> ToNumericTotal(cleaned[i])]

\* lines 151-164: flags start False; a row is flagged when its grade has a
\* band and its salary lies outside it
ClassifyAtIngest(df, bands) ==
    SetColumn(df, IS_OUTLIER,
        [i \in DOMAIN df.rows |->
            LET grade == RowValue(df, df.rows[i], GRADE)
                salary == RowValue(df, df.rows[i], TOTAL)
            IN  Bool(HasBand(bands, grade) /\ OutsideRange(salary, FirstBand(bands, grade)))])

\* a return of (False, msg) with the frame as it stands
Failure(df, msg) ==
    [ok |-> FALSE, msg |-> msg, df |-> df, missing |-> <<>>, count |-> 0, read |-> TRUE,
     exc |-> "none"]

\* an exception raised with the frame as it stands, for lines 176-181
Raise(df, exc) == [Failure(df, "") EXCEPT !.exc = exc]

\* lines 132-148, on the filtered frame
TotalStage(df) ==
    LET coerced == SetColumn(df, TOTAL, CoerceTotals(Column(df, TOTAL)))
    IN  IF AllNa(Column(coerced, TOTAL))
        THEN Failure(coerced, "Could not convert TOTAL column to numeric values")
        ELSE [ok |-> TRUE, msg |-> "Successfully loaded employee records",
              df |-> coerced, missing |-> <<>>, count |-> Len(coerced.rows), read |-> TRUE,
              exc |-> "none"]

\* lines 121-130, on the frame whose GRADE column went through extraction;
\* comparing a text GRADE with 0 raises, which line 176 catches
FilterStage(df) ==
    IF \E i \in DOMAIN df.rows : IsStr(RowValue(df, df.rows[i], GRADE))
    THEN Raise(df, "TypeError")
    ELSE LET filtered == FilterGrades(df)
         IN  IF IsEmpty(filtered)
             THEN [Failure(filtered, "No valid data rows remaining after filtering invalid grades")
                      EXCEPT !.count = Len(df.rows)]
             ELSE TotalStage(filtered)

\* lines 48-148: what becomes of the sheet, whatever the session holds: the
\* frame as it stands when the call returns or reaches line 150, and
\* whether line 50 or 54 assigned it (read)
Normalize(uploaded_file) ==
    IF ~uploaded_file.readable
    THEN [Failure(NoneDF, "Failed to read Excel file with either engine") EXCEPT !.read = FALSE]
    ELSE LET raw == ReadExcel(uploaded_file) IN
         IF IsEmpty(raw)
         THEN Failure(raw, "The uploaded Excel file doesn't contain any data")
         ELSE IF missing_columns(raw) # <<>>
         THEN [Failure(raw, "Missing required columns") EXCEPT !.missing = missing_columns(raw)]
         ELSE LET renamed == Rename(raw)
                  graded == GradeStage(renamed)
              IN  IF graded.exc # "none"
                  THEN Failure(renamed, "Error processing GRADE column")
                  ELSE IF AllNa(Column(graded.df, GRADE))
                  THEN Failure(graded.df, "Could not extract numeric grade values")
                  ELSE FilterStage(graded.df)

\* the frame a call that returns failure leaves in self.employee_df: line 50
\* assigns the sheet to self.employee_df before any check is made, and the
\* later stages go on assigning to it
AssignedAtFailure(old, new) == new

\* lines 42-181: what the call returns and the frame it leaves behind
Finish(normal, old, bands) ==
    IF ~normal.read THEN [normal EXCEPT !.df = old]
    ELSE IF ~normal.ok THEN [normal EXCEPT !.df = AssignedAtFailure(old, normal.df)]
    ELSE [normal EXCEPT !.df = ClassifyAtIngest(normal.df, bands)]

LoadOutcome(uploaded_file, old, bands) == Finish(Normalize(uploaded_file), old, bands)

----------------------------------------------------------------------------
(* The inputs of the session *)

\* cells of the GRADE and TOTAL columns of an uploaded sheet
GradeText5 == Str(<<"G", "r", "a", "d", "e", " ", "5">>)
TotalText487499 == Str(<<"4", ",", "8", "7", "4", ".", "9", "9", " ", "A", "E", "D">>)
TotalTextBad == Str(<<"n", "/", "a">>)
UnknownText == Str(<<"T", "B", "D">>)

RowChoices ==
    { <<Num(5), Num(812500)>>,        \* grade 5 at its default maximum
      <<Num(5), Num(812600)>>,        \* grade 5 above its default maximum
      <<Num(13), Num(500000)>> }      \* a grade without a band

\* single rows for the other failures of an ingest
OddRowChoices ==
    { <<GradeText5, TotalText487499>>,\* text cells, a cent below the minimum
      <<Num(0), Num(500000)>>,        \* a grade the filter drops
      <<Num(5), TotalTextBad>>,       \* a total the reader takes for a blank
      <<Num(5), UnknownText>>,        \* a total that does not parse
      <<NaN, Num(500000)>>,           \* a blank grade in a numeric column
      <<TotalTextBad, Num(500000)>>,  \* a grade the reader takes for a blank
      <<UnknownText, Num(500000)>> }  \* a grade no pattern matches

\* grade 5 totals a cent below the default minimum, at it, at the default
\* maximum and above it
BoundaryRows ==
    << <<Num(5), Num(487499)>>, <<Num(5), Num(487500)>>,
       <<Num(5), Num(812500)>>, <<Num(5), Num(812600)>> >>

SheetRow(choice) == <<Str(<<"E", "1">>), Str(<<"A", "n", "n">>), choice[1], choice[2]>>

CanonicalHeader == <<EMP_ID, EMP_NAME, GRADE, TOTAL>>
LooseHeader == << <<"E", "m", "p", " ", "I", "d">>, <<"e", "m", "p", "n", "a", "m", "e">>,
                  <<"G", "r", "a", "d", "e">>, <<"T", "o", "t", "a", "l">> >>
AliasHeader == << <<"I", "D">>, <<"N", "a", "m", "e">>, <<"L", "v", "l">>, <<"P", "a", "y">> >>
NoNameHeader == <<EMP_ID, <<"N", "a", "m", "e">>, GRADE, TOTAL>>

Sheet(header, choices) ==
    [readable |-> TRUE, columns |-> header,
     rows |-> [i \in DOMAIN choices |-> SheetRow(choices[i])]]

Unreadable == [readable |-> FALSE, columns |-> <<>>, rows |-> <<>>]

Files ==
    {Unreadable}
    \cup {Sheet(CanonicalHeader, c) : c \in SeqsUpTo(RowChoices, MaxRows)}
    \cup {Sheet(CanonicalHeader, <<c>>) : c \in OddRowChoices}
    \cup {Sheet(h, << <<Num(5), Num(812600)>> >>) : h \in {LooseHeader, AliasHeader, NoNameHeader}}
    \cup {Sheet(CanonicalHeader, BoundaryRows), Sheet(CanonicalHeader, <<BoundaryRows[2]>>)}

\* rows of a band edit set
EditRows ==
    { [Grade |-> 5, Minimum |-> 400000, Midpoint |-> 650000, Maximum |-> 900000],
      [Grade |-> 5, Minimum |-> 900000, Midpoint |-> 650000, Maximum |-> 400000],
      [Grade |-> 4, Minimum |-> 300000, Midpoint |-> 500000, Maximum |-> 700000],
      [Grade |-> 12, Minimum |-> 4000000, Midpoint |-> 6000000, Maximum |-> 8000000],
      [Grade |-> 1, Minimum |-> 80000, Midpoint |-> 110000, Maximum |-> 150000],
      [Grade |-> 13, Minimum |-> 100000, Midpoint |-> 200000, Maximum |-> 300000] }

GradeEditSets == SeqsUpTo(EditRows, MaxEdits)

\* the band edit sets that touch the grade of the records of RowChoices
RecordEditSets == {e \in GradeEditSets : \A i \in DOMAIN e : e[i].Grade = 5}

\* rows of a benchmark edit set
MarketEditRows ==
    { [Grade |-> 1, value |-> 200000],
      [Grade |-> 5, value |-> 900000],
      [Grade |-> 12, value |-> 8000000],
      [Grade |-> 13, value |-> 99900] }

\* an edit set that carries, for each grade, the benchmark it has now
UntouchedEdits(market) ==
    [column |-> Market_50th_Percentile,
     rows |-> [g \in 1..MaxGrade |-> [Grade |-> g, value |-> AlignedEntry(market, g)]]]

MarketEditSets ==
    {[column |-> Market_50th_Percentile, rows |-> r] : r \in SeqsUpTo(MarketEditRows, MaxMarketEdits)}
    \cup {[column |-> "Market 50th Percentile", rows |-> r] : r \in SeqsUpTo(MarketEditRows, 1)}

\* cells of the sheets that exercise column resolution, grade extraction,
\* row filtering and the coercion of totals
GradeText7 == Str(<<"G", "r", "a", "d", "e", " ", "7">>)
GText3 == Str(<<"G", " ", "3">>)
BareText9 == Str(<<"9">>)
ZeroText == Str(<<"0">>)
NegativeText2 == Str(<<"-", "2">>)
TotalTextSpaced == Str(<<" ", "5", ",", "0", "0", "0", " ">>)

\* the cells of a GRADE column typed as text and of one typed as numbers; a
\* blank is in both
TextGradeCells == {GradeText7, GText3, BareText9, ZeroText, NaN}
NumericGradeCells == {Num(5), Num(0), NaN}
IngestTotalCells == {Num(812600), TotalText487499, TotalTextSpaced, TotalTextBad}

\* for each required column, names that match it and one that does not
HeaderChoices ==
    << {EMP_ID, <<"E", "m", "p", "I", "d">>, <<"I", "D">>},
       {EMP_NAME, <<"e", "m", "p", " ", " ", "n", "a", "m", "e">>, <<"N", "a", "m", "e">>},
       {GRADE, <<" ", "G", "r", "a", "d", "e", " ">>, <<"L", "v", "l">>},
       {TOTAL, <<"T", " ", "o", " ", "t", " ", "a", " ", "l">>, <<"P", "a", "y">>} >>

Headers ==
    {<<a, b, c, d>> : a \in HeaderChoices[1], b \in HeaderChoices[2],
                      c \in HeaderChoices[3], d \in HeaderChoices[4]}

HeaderSheets == {Sheet(h, << <<Num(5), Num(812600)>> >>) : h \in Headers}

GradeSheets ==
    {Sheet(CanonicalHeader, [i \in DOMAIN g |-> <<g[i], Num(500000)>>]) :
        g \in (SeqsUpTo(TextGradeCells, MaxRows) \cup SeqsUpTo(NumericGradeCells, MaxRows))
                  \ {<<>>}}

\* GRADE columns holding both text and numbers, a text the reader takes
\* for a blank, a text no pattern matches, or the text of a negative number
MixedGradeSheets ==
    {Sheet(CanonicalHeader, [i \in DOMAIN g |-> <<g[i], Num(500000)>>]) :
        g \in {<<GradeText7, Num(5)>>, <<Num(5), BareText9>>, <<Num(0), GText3>>,
               <<BareText9, TotalTextBad>>, <<GradeText7, TotalTextBad>>,
               <<BareText9, UnknownText>>, <<UnknownText, GText3>>, <<UnknownText>>,
               <<NegativeText2, BareText9>>, <<NegativeText2, UnknownText>>}}

TotalSheets ==
    {Sheet(CanonicalHeader, [i \in DOMAIN t |-> <<Num(5), t[i]>>]) :
        t \in SeqsUpTo(IngestTotalCells, MaxRows) \ {<<>>}}

\* TOTAL columns holding a text that is no number and no blank
UnparsedTotalSheets ==
    {Sheet(CanonicalHeader, [i \in DOMAIN t |-> <<Num(5), t[i]>>]) :
        t \in {<<UnknownText>>, <<UnknownText, TotalText487499>>,
               <<Num(812600), UnknownText>>}}

\* numeric GRADE columns holding a negative grade
NegativeGradeSheets ==
    {Sheet(CanonicalHeader, [i \in DOMAIN g |-> <<g[i], Num(500000)>>]) :
        g \in SeqsUpTo({Num(5), Num(-2)}, MaxRows) \ {<<>>}}

\* a total that does not parse beside a record whose grade has no band
UnbandedTotalSheets ==
    {Sheet(CanonicalHeader, r) :
        r \in {<< <<Num(13), Num(500000)>>, <<Num(5), TotalTextBad>> >>,
               << <<Num(5), TotalTextBad>>, <<Num(13), Num(500000)>> >>}}

IngestFiles ==
    HeaderSheets \cup GradeSheets \cup MixedGradeSheets \cup NegativeGradeSheets
        \cup TotalSheets \cup UnparsedTotalSheets \cup UnbandedTotalSheets

\* lines 866-882: the grid of the market data section, built from the Grade
\* column of the band table as it stands and a list of values written in
\* ascending grade order, cut to the length of the table; the list pairs
\* with the grades by position
MarketGridValues ==
    <<148200, 281600, 451500, 635000, 844350, 1239000,
      1655500, 2267800, 3093600, 3810000, 4980000, 7620000>>

MarketGridColumn == "Market 50th Percentile"

MarketGrid(bands) ==
    [column |-> MarketGridColumn,
     rows |-> [i \in 1..Min({Len(bands), Len(MarketGridValues)}) |->
                  [Grade |-> bands[i].Grade, value |-> MarketGridValues[i]]]]

----------------------------------------------------------------------------
(* The session *)

\* Normalize on every sheet of the inputs, computed once
Normalized == [f \in Files \cup IngestFiles |-> Normalize(f)]

load_employee_data(uploaded_file) ==
    LET out == Finish(Normalized[uploaded_file], employee_df, grade_df)
    IN  /\ employee_df' = out.df
        /\ result' = [CallResult("load_employee_data", Len(uploaded_file.rows),
                                 Caught(out.exc, Return(out.ok, out.msg),
                                        "Failed to load employee data"))
                         EXCEPT !.missing = out.missing, !.count = out.count,
                                !.file = uploaded_file]
        /\ UNCHANGED <<grade_df, market_data, sorted_market_data>>

\* the inputs of the whole session: sheets of at most one row and one sheet
\* of two, edit sets of at most one row
UnbandedThenOutlier ==
    Sheet(CanonicalHeader, << <<Num(13), Num(500000)>>, <<Num(5), Num(812600)>> >>)

SessionFiles == {f \in Files : Len(f.rows) <= 1} \cup {UnbandedThenOutlier}
SessionGradeEdits ==
    {e \in GradeEditSets : Len(e) <= 1 /\ \A i \in DOMAIN e : e[i].Grade \in {5, 13}}
SessionMarketEdits ==
    {m \in MarketEditSets : Len(m.rows) <= 1 /\ \A i \in DOMAIN m.rows : m.rows[i].Grade \in {1, 13}}

LoadEmployeeData == \E f \in SessionFiles : load_employee_data(f)
UpdateGradeData == \E e \in SessionGradeEdits : update_grade_data(e)
UpdateMarketData ==
    \E m \in SessionMarketEdits \cup {UntouchedEdits(market_data)} : update_market_data(m)
\* lines 884-893: the grid of the market data section submitted as it was built
SubmitMarketGrid == update_market_data(MarketGrid(grade_df))
SetPredefinedMarketData == set_predefined_market_data
GenerateVisualization == generate_visualization

Next ==
    \/ LoadEmployeeData
    \/ UpdateGradeData
    \/ UpdateMarketData
    \/ SubmitMarketGrid
    \/ SetPredefinedMarketData
    \/ GenerateVisualization

Spec == Init /\ [][Next]_vars

\* the record set under band updates: every sheet, and every edit set of
\* the band of the records
LoadAnySheet == \E f \in Files : load_employee_data(f)
UpdateRecordBands == \E e \in RecordEditSets : update_grade_data(e)

NextBands ==
    \/ LoadAnySheet
    \/ UpdateRecordBands
    \/ GenerateVisualization

SpecBands == Init /\ [][NextBands]_vars

\* the band table: every band edit set
UpdateAnyBands == \E e \in GradeEditSets : update_grade_data(e)

NextEdits ==
    \/ UpdateAnyBands
    \/ GenerateVisualization

SpecEdits == Init /\ [][NextEdits]_vars

\* the benchmark array: every benchmark edit set
UpdateAnyMarket ==
    \E m \in MarketEditSets \cup {UntouchedEdits(market_data)} : update_market_data(m)

NextMarket ==
    \/ UpdateAnyMarket
    \/ SetPredefinedMarketData
    \/ GenerateVisualization

SpecMarket == Init /\ [][NextMarket]_vars

\* the ingest alone: every sheet of IngestFiles, each loaded over whatever
\* the ingest before it left
LoadIngestSheet == \E f \in IngestFiles : load_employee_data(f)

NextIngest == LoadIngestSheet

SpecIngest == Init /\ [][NextIngest]_vars

\* the coerced totals under band updates: every sheet of totals, and every
\* edit set of the band of their records
LoadTotalSheet ==
    \E f \in TotalSheets \cup UnparsedTotalSheets \cup UnbandedTotalSheets :
        load_employee_data(f)

NextTotals ==
    \/ LoadTotalSheet
    \/ UpdateRecordBands
    \/ GenerateVisualization

SpecTotals == Init /\ [][NextTotals]_vars

----------------------------------------------------------------------------
(* Reading the state *)

Loaded == ~employee_df.isNone

\* a frame holding the columns of a classified record set
Classified ==
    /\ Loaded
    /\ HasCol(employee_df, GRADE)
    /\ HasCol(employee_df, TOTAL)
    /\ HasCol(employee_df, IS_OUTLIER)

Records == Range(employee_df.rows)

GradeOf(r) == RowValue(employee_df, r, GRADE)
TotalOf(r) == RowValue(employee_df, r, TOTAL)
FlagOf(r) == RowValue(employee_df, r, IS_OUTLIER)

Flagged(r) == FlagOf(r) = Bool(TRUE)
Unflagged(r) == FlagOf(r) = Bool(FALSE)

Banded(r) == IsNum(GradeOf(r)) /\ \E i \in DOMAIN grade_df : grade_df[i].Grade = GradeOf(r).v

BandOf(r) == grade_df[CHOOSE i \in DOMAIN grade_df : grade_df[i].Grade = GradeOf(r).v]

\* total < minimum or total > maximum, false for a missing total
OutOfBand(r) ==
    /\ IsNum(TotalOf(r))
    /\ \/ TotalOf(r).v < BandOf(r).Minimum
       \/ TotalOf(r).v > BandOf(r).Maximum

FlagIsDerived(r) == IF OutOfBand(r) THEN Flagged(r) ELSE Unflagged(r)

BandFor(bands, g) == bands[CHOOSE i \in DOMAIN bands : bands[i].Grade = g]

DefaultBand5 ==
    /\ BandFor(grade_df, 5).Minimum = 487500
    /\ BandFor(grade_df, 5).Maximum = 812500

----------------------------------------------------------------------------
(* C1 *)

\* C1: a failed ingest is never partially applied: whenever
\* load_employee_data returns failure, the employee record set is exactly
\* what it was before the call.
C1_FailedIngestKeepsRecordSet ==
    [][(result'.op = "load_employee_data" /\ ~result'.ok) => employee_df' = employee_df]_vars

----------------------------------------------------------------------------
(* C2 *)

\* C2: after every update_grade_data call made while a record set is loaded,
\* every record whose grade has a band carries IS_OUTLIER equal to
\* (total < minimum or total > maximum) against the band table as it stands
\* after the call.
C2_FlagsFollowBandTable ==
    (result.op = "update_grade_data" /\ Classified)
        => \A r \in Records : Banded(r) => FlagIsDerived(r)

----------------------------------------------------------------------------
(* C3 *)

\* C3: band membership is a closed interval: after an ingest, every record
\* whose grade has a band is flagged if and only if its total is below the
\* minimum or above the maximum; against the default band of grade 5 a total
\* of 8125 is not an outlier, 8126 is, 4874.99 is.
C3_ClosedInterval ==
    (result.op = "load_employee_data" /\ result.ok)
        => \A r \in Records :
              /\ Banded(r) => (Flagged(r) <=> OutOfBand(r))
              /\ Banded(r) => (Unflagged(r) <=> ~OutOfBand(r))
              /\ (DefaultBand5 /\ GradeOf(r) = Num(5)) =>
                    /\ TotalOf(r) = Num(812500) => Unflagged(r)
                    /\ TotalOf(r) = Num(487500) => Unflagged(r)
                    /\ TotalOf(r) = Num(812600) => Flagged(r)
                    /\ TotalOf(r) = Num(487499) => Flagged(r)

\* an ingest under the default table kept grade 5 records at the minimum
\* and at the maximum, unflagged, next to one a cent below the minimum and
\* one above the maximum, flagged
C3_Witness ==
    /\ result.op = "load_employee_data" /\ result.ok /\ DefaultBand5
    /\ \E r \in Records : GradeOf(r) = Num(5) /\ TotalOf(r) = Num(487500) /\ Unflagged(r)
    /\ \E r \in Records : GradeOf(r) = Num(5) /\ TotalOf(r) = Num(812500) /\ Unflagged(r)
    /\ \E r \in Records : GradeOf(r) = Num(5) /\ TotalOf(r) = Num(487499) /\ Flagged(r)
    /\ \E r \in Records : GradeOf(r) = Num(5) /\ TotalOf(r) = Num(812600) /\ Flagged(r)

----------------------------------------------------------------------------
(* C4 *)

\* C4: a record whose grade has no band is left with its outlier flag false,
\* at ingest and at the re-classification of update_grade_data, and its
\* presence does not stop the other records from being classified.
C4_UnbandedLeftUnflagged ==
    (Classified /\ \/ result.op = "update_grade_data"
                   \/ result.op = "load_employee_data" /\ result.ok)
        => \A r \in Records :
              /\ ~Banded(r) => Unflagged(r)
              /\ Banded(r) => FlagIsDerived(r)

----------------------------------------------------------------------------
(* C5 *)

EntryPoints ==
    {"load_employee_data", "update_grade_data", "update_market_data",
     "set_predefined_market_data"}

\* C5: every ingestion/update entry point returns a (success flag, message)
\* pair and never raises to its caller.
C5_EntryPointsReturn ==
    result.op \in EntryPoints
        => /\ ~result.raised
           /\ result.ok \in BOOLEAN
           /\ result.ok <=> result.msg \in
                 {"Successfully loaded employee records",
                  "Grade data updated successfully",
                  "Market data updated successfully",
                  "Market data updated with predefined values"}

\* each of the three guarded entry points has caught an exception
C5_Witness ==
    /\ result.op = "update_grade_data"
    /\ ~result.ok
    /\ result.msg = "Failed to update grade data"

----------------------------------------------------------------------------
(* C6 *)

EditsFor(edits, g) == {j \in DOMAIN edits : edits[j].Grade = g}

LastEditFor(edits, g) == edits[CHOOSE j \in EditsFor(edits, g) : \A k \in EditsFor(edits, g) : k <= j]

\* every band keeps its place and its grade; a band whose grade has an edit
\* row holds the values of that row (of the last one, should the set repeat
\* a grade); every other band is as it was
BandsEditedByKey(old, new, edits) ==
    /\ Len(new) = Len(old)
    /\ \A i \in DOMAIN old :
          /\ new[i].Grade = old[i].Grade
          /\ IF EditsFor(edits, old[i].Grade) = {}
             THEN new[i] = old[i]
             ELSE LET e == LastEditFor(edits, old[i].Grade)
                  IN  /\ new[i].Minimum = e.Minimum
                      /\ new[i].Midpoint = e.Midpoint
                      /\ new[i].Maximum = e.Maximum

\* C6: update_grade_data applies edits by grade key, not by position: the
\* band of each edited grade takes the edit's values whatever the order of
\* the rows, an edit for a grade not in the table changes nothing and
\* inserts no band, and the other bands are unchanged.
C6_EditsByGradeKey ==
    [][result'.op = "update_grade_data" =>
          \A e \in GradeEditSets :
             (Len(e) = result'.rows /\ update_grade_data(e))
                => BandsEditedByKey(grade_df, grade_df', e)]_vars

\* a call with two edit rows, after which grades 5 and 4 hold edited values
\* in a table still in its initial order
C6_Witness ==
    /\ result.op = "update_grade_data" /\ result.rows = 2
    /\ Grades(grade_df) = GradeColumn
    /\ BandFor(grade_df, 5).Minimum = 400000 /\ BandFor(grade_df, 5).Maximum = 900000
    /\ BandFor(grade_df, 4).Minimum = 300000 /\ BandFor(grade_df, 4).Maximum = 700000
    /\ BandFor(grade_df, 6) = BandFor(grade_data, 6)

----------------------------------------------------------------------------
(* C7 *)

\* market_data[12 - g] of the source, 0 outside the array
BenchmarkOf(market, g) ==
    IF 0 <= 12 - g /\ 12 - g < Len(market) THEN market[(12 - g) + 1] ELSE 0

\* C7: the aligned benchmark sequence has the length of the ascending grade
\* sequence handed to the chart and holds, for grade g, market_data[12 - g]
\* when that index exists and 0 otherwise; the default array aligns grades
\* 1, 2, 3 to 1482, 2816, 4515.
C7_BenchmarkAlignment ==
    (result.op = "generate_visualization" /\ result.ok)
        => /\ Len(sorted_market_data) = Len(grade_df)
           /\ \A i \in DOMAIN grade_df :
                 /\ i > 1 => grade_df[i - 1].Grade < grade_df[i].Grade
                 /\ sorted_market_data[i] = BenchmarkOf(market_data, grade_df[i].Grade)
           /\ market_data = PredefinedMarketData
                 => /\ SubSeq(Grades(grade_df), 1, 3) = <<1, 2, 3>>
                    /\ SubSeq(sorted_market_data, 1, 3) = <<148200, 281600, 451500>>

\* a visualization of an edited benchmark array
C7_Witness ==
    /\ result.op = "generate_visualization" /\ result.ok
    /\ Len(sorted_market_data) = 12
    /\ sorted_market_data[1] = 200000
    /\ sorted_market_data[12] = 8000000
    /\ sorted_market_data[2] = 281600

----------------------------------------------------------------------------
(* C8 *)

MarketEditsFor(rows, g) == {j \in DOMAIN rows : rows[j].Grade = g}

LastMarketEditFor(rows, g) ==
    rows[CHOOSE j \in MarketEditsFor(rows, g) : \A k \in MarketEditsFor(rows, g) : k <= j]

RebuiltFrom(old, new, rows) ==
    /\ Len(new) = 12
    /\ \A g \in 1..12 :
          new[(12 - g) + 1] =
             IF MarketEditsFor(rows, g) # {} THEN LastMarketEditFor(rows, g).value
             ELSE IF 12 - g < Len(old) THEN old[(12 - g) + 1]
             ELSE 0

\* C8: update_market_data rebuilds the descending benchmark array from a
\* sparse {Grade, Market_50th_Percentile} edit set: the entry at index 12 - g
\* is the edit's value if the set has an edit for g, otherwise the value
\* stored there before, otherwise 0; edits for grades outside 1..12 have no
\* effect.
C8_MarketRebuild ==
    [][result'.op = "update_market_data" =>
          \A m \in MarketEditSets \cup {UntouchedEdits(market_data)} :
             (m.column = Market_50th_Percentile /\ update_market_data(m))
                => RebuiltFrom(market_data, market_data', m.rows)]_vars

\* a call with two edit rows after which grade 1 alone differs from the
\* default array: an edit of grade 1 next to one of grade 13, or a repeat
C8_Witness ==
    /\ result.op = "update_market_data" /\ result.ok /\ result.rows = 2
    /\ market_data = [PredefinedMarketData EXCEPT ![12] = 200000]

----------------------------------------------------------------------------
(* C9 *)

AscendingGrades == Grades(SortByGrade(grade_df))

NoEdits == [column |-> Market_50th_Percentile, rows |-> <<>>]

\* C9: update_market_data with an untouched edit set (for each grade the
\* benchmark it has now, or no edits at all) followed by the alignment to
\* the ascending grades reproduces the benchmark every grade had before.
C9_BenchmarkRoundTrip ==
    [][\A m \in {UntouchedEdits(market_data), NoEdits} :
          (result'.op = "update_market_data" /\ update_market_data(m))
             => /\ result'.ok
                /\ AlignToGrades(market_data', AscendingGrades)
                      = AlignToGrades(market_data, AscendingGrades)]_vars

\* a call with one edit row per grade that left an edited array as it was
C9_Witness ==
    /\ result.op = "update_market_data" /\ result.ok /\ result.rows = 12
    /\ market_data[12] = 200000
    /\ market_data[8] = 900000

----------------------------------------------------------------------------
(* C10 *)

FlaggedIn(df, i) == RowValue(df, df.rows[i], IS_OUTLIER) = Bool(TRUE)

\* the total of row i lies in the band the table has for its grade
InsideBandIn(df, bands, i) ==
    LET g == RowValue(df, df.rows[i], GRADE)
        t == RowValue(df, df.rows[i], TOTAL)
    IN  /\ IsNum(g) /\ IsNum(t)
        /\ \E b \in DOMAIN bands :
              /\ bands[b].Grade = g.v
              /\ bands[b].Minimum <= t.v
              /\ t.v <= bands[b].Maximum

\* C10: classification is idempotent and overwrites: re-running the band
\* update with the same band table leaves the flags as the first run left
\* them, and a record flagged under an earlier table is unflagged once the
\* table's band for its grade contains its total.
C10_IdempotentOverwrite ==
    [][result'.op = "update_grade_data" =>
          /\ (result.op = "update_grade_data" /\ grade_df' = grade_df)
                => employee_df' = employee_df
          /\ (Classified /\ Len(employee_df'.rows) = Len(employee_df.rows))
                => \A i \in DOMAIN employee_df.rows :
                      (FlaggedIn(employee_df, i) /\ InsideBandIn(employee_df', grade_df', i))
                         => ~FlaggedIn(employee_df', i)]_vars

----------------------------------------------------------------------------
(* The ingest of one sheet *)

\* the last call was an ingest
AfterIngest == result.op = "load_employee_data"

\* the sheet it was given
IngestedSheet == result.file

\* the sheet was read and holds data, so that the ingest reached the
\* resolution of its columns
HoldsData(f) == f.readable /\ f.rows # <<>> /\ f.columns # <<>>

----------------------------------------------------------------------------
(* C11 *)

\* a name with its letters in upper case and its spaces removed
Folded(name) == Remove(Upper(name), <<" ">>)

HasMatch(f, req_col) == \E i \in DOMAIN f.columns : Folded(f.columns[i]) = Folded(req_col)

\* the required columns without a match, in the order of the requirement
Unmatched(f) ==
    LET Test(req_col) == ~HasMatch(f, req_col)
    IN  SelectSeq(required_columns, Test)

\* C11: a required column is matched by an actual column whose name equals
\* it ignoring letter case and spaces; the ingest of a sheet holding data
\* fails with the missing-columns error if and only if some required column
\* has no such match, the error lists exactly the required columns without
\* a match, and otherwise every required column is a column of the frame.
C11_ColumnResolution ==
    (AfterIngest /\ HoldsData(IngestedSheet)) =>
       /\ (~result.ok /\ result.msg = "Missing required columns")
             <=> Unmatched(IngestedSheet) # <<>>
       /\ result.missing = Unmatched(IngestedSheet)
       /\ Unmatched(IngestedSheet) = <<>> =>
             \A j \in DOMAIN required_columns : HasCol(employee_df, required_columns[j])

\* an ingest whose sheet names three required columns in other letter case
\* and spacing and lacks the fourth: the error lists TOTAL alone
C11_Witness ==
    /\ AfterIngest
    /\ ~result.ok /\ result.msg = "Missing required columns"
    /\ result.missing = <<TOTAL>>
    /\ IngestedSheet.columns[1] \notin {EMP_ID, <<"I", "D">>}
    /\ IngestedSheet.columns[2] \notin {EMP_NAME, <<"N", "a", "m", "e">>}
    /\ IngestedSheet.columns[3] \notin {GRADE, <<"L", "v", "l">>}

----------------------------------------------------------------------------
(* C12 *)

\* the last call was the ingest of a sheet with columns ID, Name, Lvl, Pay
AliasSheetIngested ==
    /\ AfterIngest
    /\ HoldsData(IngestedSheet)
    /\ IngestedSheet.columns = AliasHeader

\* C12 (as stated): ingesting a table whose columns are ID, Name, Lvl, Pay
\* fails with the missing-columns error, and the columns the error names as
\* missing are GRADE and TOTAL.
C12_NamesGradeAndTotal ==
    AliasSheetIngested =>
       /\ ~result.ok /\ result.msg = "Missing required columns"
       /\ result.missing = <<GRADE, TOTAL>>

\* C12 (amended): ingesting a table whose columns are ID, Name, Lvl, Pay
\* fails with the missing-columns error, and the error names all four
\* required columns, EMP ID, EMP NAME, GRADE and TOTAL, as missing.
C12_NamesAllFour ==
    AliasSheetIngested =>
       /\ ~result.ok /\ result.msg = "Missing required columns"
       /\ result.missing = <<EMP_ID, EMP_NAME, GRADE, TOTAL>>

C12_Witness ==
    /\ AliasSheetIngested
    /\ ~result.ok
    /\ Len(result.missing) = 4

----------------------------------------------------------------------------
(* C13 *)

\* the GRADE cells of a sheet whose header is the canonical one
SheetGrades(f) == [i \in DOMAIN f.rows |-> f.rows[i][3]]

\* the GRADE cells of the sheet as the reader hands them to line 93
ReadGrades(f) == Column(ReadExcel(f), GRADE)

\* what the patterns "Grade <digits>" (1), "G <digits>" (2) and "<digits>"
\* (3) yield for the GRADE cells of the sheets
Yield(cell, p) ==
    IF cell = GradeText7 THEN (IF p = 2 THEN NaN ELSE Num(7))
    ELSE IF cell = GText3 THEN (IF p = 1 THEN NaN ELSE Num(3))
    ELSE IF cell = BareText9 THEN (IF p = 3 THEN Num(9) ELSE NaN)
    ELSE IF cell = ZeroText THEN (IF p = 3 THEN Num(0) ELSE NaN)
    ELSE IF cell = NegativeText2 THEN (IF p = 3 THEN Num(2) ELSE NaN)
    ELSE IF cell = GradeText5 THEN (IF p = 2 THEN NaN ELSE Num(5))
    ELSE IF IsNum(cell) THEN (IF p = 3 THEN cell ELSE NaN)
    ELSE NaN

\* some pattern yields a value for some cell of the column
SomeYield(cells) == \E p \in 1..3 : \E i \in DOMAIN cells : ~IsNa(Yield(cells[i], p))

\* the sheet has the canonical header and a GRADE column that reaches line
\* 93 as text, some value of which a pattern matches
TextGradeSheet(f) ==
    /\ HoldsData(f)
    /\ f.columns = CanonicalHeader
    /\ \E i \in DOMAIN f.rows : IsStr(ReadGrades(f)[i])
    /\ SomeYield(ReadGrades(f))

\* the sheet has the canonical header and a GRADE column that holds text
\* in the file, some value of which a pattern matches
SheetTextGrades(f) ==
    /\ HoldsData(f)
    /\ f.columns = CanonicalHeader
    /\ \E i \in DOMAIN f.rows : IsStr(f.rows[i][3])
    /\ SomeYield(SheetGrades(f))

\* the sheet has the canonical header and a GRADE column that holds text
\* in the file and none at line 93: the reader took every text for a
\* number or a blank
NumberTextSheet(f) ==
    /\ HoldsData(f)
    /\ f.columns = CanonicalHeader
    /\ \E i \in DOMAIN f.rows : IsStr(f.rows[i][3])
    /\ \A i \in DOMAIN f.rows : ~IsStr(ReadGrades(f)[i])

\* every GRADE cell of the sheet is the text "9"
OnlyBareNines(f) ==
    /\ HoldsData(f)
    /\ f.columns = CanonicalHeader
    /\ \A i \in DOMAIN f.rows : f.rows[i][3] = BareText9

\* the first pattern that yields a value for some cell of the column
Selected(cells) ==
    Min({p \in 1..3 : \E i \in DOMAIN cells : ~IsNa(Yield(cells[i], p))})

\* the selected pattern applied to every cell
Resolved(cells) == [i \in DOMAIN cells |-> Yield(cells[i], Selected(cells))]

\* the rows a filter on grade > 0 keeps, as pairs of row label and grade
KeptRows(grades) ==
    LET Test(pair) == IsNum(pair[2]) /\ pair[2].v > 0
    IN  SelectSeq([i \in DOMAIN grades |-> <<i - 1, grades[i]>>], Test)

\* the rows of the record set, as pairs of row label and grade
WorkingRows ==
    [j \in DOMAIN employee_df.rows |->
        <<employee_df.rows[j].index, GradeOf(employee_df.rows[j])>>]

\* C13 (as stated): for a GRADE column that holds text the patterns
\* "Grade <digits>", "G <digits>", "<digits>" are tried in that order, the
\* first that matches some value of the column is applied to every value,
\* and a value it does not match becomes missing (never 0); a column of
\* bare numbers such as "9" is resolved by the last pattern.  So the ingest
\* keeps exactly the rows to which the selected pattern gives a grade above
\* 0, and fails when there is none.
C13_PatternsResolveSheetText ==
    (AfterIngest /\ SheetTextGrades(IngestedSheet)) =>
       LET kept == KeptRows(Resolved(SheetGrades(IngestedSheet)))
       IN  IF kept = <<>>
           THEN result.msg = "No valid data rows remaining after filtering invalid grades"
           ELSE result.ok /\ WorkingRows = kept

\* C13 (amended): for a GRADE column that is still text when the sheet has
\* been read the patterns "Grade <digits>", "G <digits>", "<digits>" are
\* tried in that order, the first that matches some value of the column is
\* applied to every value, and a value it does not match becomes missing
\* (never 0) even if a later pattern would match it; after a successful
\* ingest the records are the rows it resolved, with the grades it gave
\* them.  A column whose texts all read as numbers or blanks is numeric
\* when it has been read and no pattern is tried: a column of only "9"
\* gives every row grade 9, the numbers are the grades when no cell is
\* blank (a row of "-2" is dropped, not kept with grade 2), and with a
\* blank cell the ingest fails with the error of the GRADE column.
C13_GradeExtraction ==
    /\ (AfterIngest /\ TextGradeSheet(IngestedSheet)) =>
          /\ ExtractGrades(ReadGrades(IngestedSheet)) = Resolved(ReadGrades(IngestedSheet))
          /\ result.ok => WorkingRows = KeptRows(Resolved(ReadGrades(IngestedSheet)))
    /\ (AfterIngest /\ NumberTextSheet(IngestedSheet)) =>
          IF \E i \in DOMAIN IngestedSheet.rows : IsNa(ReadGrades(IngestedSheet)[i])
          THEN ~result.ok /\ result.msg = "Error processing GRADE column"
          ELSE /\ result.msg # "Error processing GRADE column"
               /\ result.ok => WorkingRows = KeptRows(ReadGrades(IngestedSheet))
    /\ (AfterIngest /\ OnlyBareNines(IngestedSheet)) =>
          /\ result.ok
          /\ WorkingRows = [i \in DOMAIN IngestedSheet.rows |-> <<i - 1, Num(9)>>]

\* a column holding "Grade 7" and "G 3": the first pattern is selected, the
\* first row is kept with grade 7 and the second row is gone
C13_Witness ==
    /\ AfterIngest /\ result.ok
    /\ SheetGrades(IngestedSheet) = <<GradeText7, GText3>>
    /\ WorkingRows = << <<0, Num(7)>> >>

----------------------------------------------------------------------------
(* C14 *)

\* every GRADE cell of the sheet is 0 or blank, as a number or as text
AllZeroOrBlank(f) ==
    /\ HoldsData(f)
    /\ f.columns = CanonicalHeader
    /\ \A i \in DOMAIN f.rows : f.rows[i][3] \in {Num(0), NaN, ZeroText}

\* C14: an ingest in which every row's GRADE is 0 or blank, whether the
\* column arrives as numbers or as text, fails with the empty-after-filtering
\* error, and the error reports the row count before filtering.
C14_AllZeroOrBlankFails ==
    (AfterIngest /\ AllZeroOrBlank(IngestedSheet)) =>
       /\ ~result.ok
       /\ result.msg = "No valid data rows remaining after filtering invalid grades"
       /\ result.count = Len(IngestedSheet.rows)

----------------------------------------------------------------------------
(* C15 *)

\* the number a GRADE cell of the sheets stands for when it is a number,
\* the text of one, or a blank: "9" is 9, "0" is 0, "-2" is -2, "n/a" is a
\* blank
Denoted(cell) ==
    IF cell = BareText9 THEN Num(9)
    ELSE IF cell = ZeroText THEN Num(0)
    ELSE IF cell = NegativeText2 THEN Num(-2)
    ELSE IF IsNum(cell) THEN cell
    ELSE NaN

\* every cell of the column is a number, the text of one, or a blank
AllNumbers(cells) ==
    \A i \in DOMAIN cells :
        \/ IsNum(cells[i]) \/ IsNa(cells[i])
        \/ cells[i] \in {BareText9, ZeroText, NegativeText2, TotalTextBad}

\* the grades the ingest resolves for the rows of a sheet: the numbers of a
\* column of numbers, the yield of the selected pattern for a text column
ResolvedGrades(f) ==
    IF AllNumbers(SheetGrades(f))
    THEN [i \in DOMAIN f.rows |-> Denoted(SheetGrades(f)[i])]
    ELSE IF SomeYield(SheetGrades(f)) THEN Resolved(SheetGrades(f))
    ELSE SheetGrades(f)

\* row j of the record set carries the identity of the input row it is
RowOfSheet(f, j) ==
    LET r == employee_df.rows[j]
    IN  /\ r.index + 1 \in DOMAIN f.rows
        /\ RowValue(employee_df, r, EMP_ID) = f.rows[r.index + 1][1]
        /\ RowValue(employee_df, r, EMP_NAME) = f.rows[r.index + 1][2]

\* C15: after every successful ingest the record set consists of exactly the
\* input rows whose grade resolved to an integer greater than 0, in input
\* order: rows with a missing or non-positive grade are excluded, no row
\* with a valid grade is dropped, and nothing of an earlier record set
\* remains.
C15_WorkingSet ==
    (AfterIngest /\ result.ok /\ HoldsData(IngestedSheet)) =>
       /\ WorkingRows = KeptRows(ResolvedGrades(IngestedSheet))
       /\ \A j \in DOMAIN employee_df.rows : RowOfSheet(IngestedSheet, j)
       /\ result.count = Len(employee_df.rows)

\* a numeric column holding 0 and 5: the second row alone is the record set
C15_Witness ==
    /\ AfterIngest /\ result.ok
    /\ SheetGrades(IngestedSheet) = <<Num(0), Num(5)>>
    /\ WorkingRows = << <<1, Num(5)>> >>

----------------------------------------------------------------------------
(* C16 *)

\* the TOTAL cells of a sheet whose header is the canonical one
SheetTotals(f) == [i \in DOMAIN f.rows |-> f.rows[i][4]]

\* the sheet has the canonical header, grades that keep every row, and a
\* TOTAL column holding some text
TextTotalSheet(f) ==
    /\ HoldsData(f)
    /\ f.columns = CanonicalHeader
    /\ \A i \in DOMAIN f.rows : f.rows[i][3] = Num(5)
    /\ \E i \in DOMAIN f.rows : IsStr(f.rows[i][4])

\* the number a TOTAL cell of the sheets stands for, in cents: "4,874.99 AED"
\* is 4874.99, " 5,000 " is 5000, "n/a" and "TBD" are no number
Parsed(cell) ==
    IF cell = TotalText487499 THEN Num(487499)
    ELSE IF cell = TotalTextSpaced THEN Num(500000)
    ELSE IF IsNum(cell) THEN cell
    ELSE NaN

\* C16: when the TOTAL column holds text, every value made of a decimal
\* number with thousands separators, the currency code and surrounding
\* spaces is parsed to that number whatever its row position, a value that
\* cannot be parsed becomes missing, and the ingest fails with the
\* unparseable-totals error exactly when no value of the column parses.
C16_TotalCoercion ==
    (AfterIngest /\ TextTotalSheet(IngestedSheet)) =>
       IF \A i \in DOMAIN IngestedSheet.rows : IsNa(Parsed(SheetTotals(IngestedSheet)[i]))
       THEN /\ ~result.ok
            /\ result.msg = "Could not convert TOTAL column to numeric values"
       ELSE /\ result.ok
            /\ Column(employee_df, TOTAL)
                  = [i \in DOMAIN IngestedSheet.rows |-> Parsed(SheetTotals(IngestedSheet)[i])]

----------------------------------------------------------------------------
(* C17 *)

\* the band table holds for the grade of row i of df a band whose minimum
\* exceeds its maximum
MalformedBandIn(df, bands, i) ==
    LET g == RowValue(df, df.rows[i], GRADE)
    IN  /\ IsNum(g)
        /\ \E b \in DOMAIN bands :
              bands[b].Grade = g.v /\ bands[b].Minimum > bands[b].Maximum

\* C17: a malformed band is accepted and behaves as an always-outlier band:
\* update_grade_data succeeds for an edit with minimum > maximum, and
\* afterwards every loaded record of that grade with a numeric total is
\* flagged, whatever its total.
C17_MalformedBandAlwaysOutlier ==
    [][result'.op = "update_grade_data" =>
          \A e \in RecordEditSets :
             (/\ Len(e) = result'.rows
              /\ update_grade_data(e)
              /\ \E i \in DOMAIN e : e[i].Minimum > e[i].Maximum)
                => /\ result'.ok
                   /\ (~employee_df'.isNone /\ HasCol(employee_df', GRADE)
                          /\ HasCol(employee_df', TOTAL)) =>
                         \A i \in DOMAIN employee_df'.rows :
                            (/\ MalformedBandIn(employee_df', grade_df', i)
                             /\ IsNum(RowValue(employee_df', employee_df'.rows[i], TOTAL)))
                               => FlaggedIn(employee_df', i)]_vars

----------------------------------------------------------------------------
(* C18 *)

\* C18: in every state reachable by ingests, band updates, benchmark
\* updates, benchmark resets and visualizations, the benchmark array has
\* exactly 12 entries and every grade of the band table lies in 1..12, so
\* that the index 12 - g of every grade lies inside the array (the zero
\* fallback is never taken) and a visualization emits for each grade the
\* entry stored at that index.
C18_BenchmarkCoversGrades ==
    /\ Len(market_data) = 12
    /\ \A i \in DOMAIN grade_df :
          /\ grade_df[i].Grade \in 1..12
          /\ 0 <= 12 - grade_df[i].Grade
          /\ 12 - grade_df[i].Grade < Len(market_data)
    /\ \A grade \in 1..12 : 0 <= 12 - grade /\ 12 - grade < Len(market_data)
    /\ (result.op = "generate_visualization" /\ result.ok) =>
          /\ Len(sorted_market_data) = Len(grade_df)
          /\ \A i \in DOMAIN grade_df :
                sorted_market_data[i] = market_data[12 - grade_df[i].Grade + 1]

\* a visualization after an ingest, a band edit and a benchmark edit of
\* grade 1
C18_Witness ==
    /\ result.op = "generate_visualization" /\ result.ok
    /\ Loaded
    /\ BandFor(grade_df, 5).Minimum = 400000
    /\ market_data[12] = 200000
    /\ sorted_market_data[1] = 200000

----------------------------------------------------------------------------
(* C19 *)

\* the benchmarks of __init__, grade 12 first, in cents
DefaultBenchmarks ==
    <<7620000, 4980000, 3810000, 3093600, 2267800, 1655500,
      1239000, 844350, 635000, 451500, 281600, 148200>>

\* C19: benchmarks and bands are independent state: update_market_data and
\* set_predefined_market_data leave the band table, the record set and every
\* outlier flag unchanged, update_grade_data and load_employee_data leave the
\* benchmark array unchanged, and set_predefined_market_data restores the
\* default 12-entry benchmark array whatever edits preceded it.
C19_BenchmarksAndBandsIndependent ==
    [][/\ result'.op \in {"update_market_data", "set_predefined_market_data"} =>
             /\ grade_df' = grade_df
             /\ employee_df' = employee_df
       /\ result'.op \in {"update_grade_data", "load_employee_data"} =>
             market_data' = market_data
       /\ result'.op = "set_predefined_market_data" =>
             /\ result'.ok
             /\ market_data' = DefaultBenchmarks]_vars

\* a reset made on an edited band table with a record set loaded
C19_Witness ==
    /\ result.op = "set_predefined_market_data"
    /\ market_data = DefaultBenchmarks
    /\ Classified
    /\ BandFor(grade_df, 5).Minimum = 400000

----------------------------------------------------------------------------
(* C20 *)

\* C20: update_grade_data is all-or-nothing: whenever it returns failure,
\* the band table and every record's outlier flag (the frame, of which the
\* call writes nothing but the flags) are exactly as they were before the
\* call.
C20_BandUpdateAllOrNothing ==
    [][(result'.op = "update_grade_data" /\ ~result'.ok) =>
          /\ grade_df' = grade_df
          /\ employee_df' = employee_df]_vars

----------------------------------------------------------------------------
(* C21 *)

\* every record of a classified record set whose total is missing is
\* unflagged
MissingTotalsUnflagged ==
    Classified => \A r \in Records : IsNa(TotalOf(r)) => Unflagged(r)

\* the rows of a frame, as pairs of row label and total
TotalsOf(df) ==
    [j \in DOMAIN df.rows |-> <<df.rows[j].index, RowValue(df, df.rows[j], TOTAL)>>]

\* C21: a record whose TOTAL is missing after coercion, while another total
\* of the column parsed, stays in the working set and is never flagged as
\* an outlier, neither by the classification at ingest nor by any later
\* re-classification after a band update.
C21_MissingTotalNeverFlagged ==
    [][/\ MissingTotalsUnflagged'
       /\ (result'.op = "load_employee_data" /\ result'.ok) =>
             Len(employee_df'.rows) = Len(result'.file.rows)
       /\ (result'.op = "update_grade_data" /\ Classified) =>
             TotalsOf(employee_df') = TotalsOf(employee_df)]_vars

\* after a successful update to a band no total lies in, the record with
\* the missing total is unflagged beside a flagged one
C21_Witness ==
    /\ result.op = "update_grade_data" /\ result.ok
    /\ Classified
    /\ BandFor(grade_df, 5).Minimum > BandFor(grade_df, 5).Maximum
    /\ \E r \in Records : IsNa(TotalOf(r)) /\ Unflagged(r)
    /\ \E r \in Records : IsNum(TotalOf(r)) /\ Flagged(r)

----------------------------------------------------------------------------
(* C22 *)

\* the benchmark array update_market_data leaves when given the edit frame
UpdatedMarketData(new_market_data) ==
    IF MarketExc(new_market_data) = "none"
    THEN RebuildMarketData(GradeToMarket(new_market_data.rows, EmptyDict), market_data)
    ELSE market_data

\* C22: in every reachable session state the market-data edit grid built
\* from the band table pairs each grade g with the predefined benchmark of
\* grade g (1482 for grade 1 up to 76200 for grade 12), whether or not
\* generate_visualization has already sorted the band table ascending, so
\* that submitting the grid unedited to update_market_data keeps every
\* grade's benchmark.
C22_GridPairsGradeWithItsBenchmark ==
    /\ Len(MarketGrid(grade_df).rows) = Len(grade_df)
    /\ \A i \in DOMAIN MarketGrid(grade_df).rows :
          MarketGrid(grade_df).rows[i].value
             = BenchmarkOf(DefaultBenchmarks, MarketGrid(grade_df).rows[i].Grade)
    /\ \A g \in 1..12 :
          BenchmarkOf(UpdatedMarketData(MarketGrid(grade_df)), g) = BenchmarkOf(market_data, g)

====
